---- MODULE Spec2Model ----
(***************************************************************************)
(* NasMutator (mmrazor/models/mutators/nas_mutator.py) and Autoformer      *)
(* (mmrazor/models/algorithms/nas/autoformer.py) as state machines.        *)
(*                                                                         *)
(* Python values are encoded as follows.                                   *)
(*   None            the empty tuple <<>>                                  *)
(*   a non-None v    the one-element tuple <<v>>                           *)
(*   a dict          a sequence of <<key, value>> pairs in insertion order *)
(*   a group name    a pair <<kind, id>>, e.g. 'channel_0' is              *)
(*                   <<"channel", 0>>                                      *)
(*   an exception    the name of its class, "none" when the call returned  *)
(***************************************************************************)
EXTENDS Integers, Sequences, FiniteSets, TLC

\* ---------------------------------------------------------------- bounds
NumMutables == 3
MaxChoice == 2
MaxMutators == 2
MaxDictKeys == 1

\* ------------------------------------------------------- NasMutator state
VARIABLES
    attrs,            \* names of the instance attributes that have been set
    custom_groups,    \* self._custom_groups
    search_groups_,   \* self._search_groups
    arch_params_,     \* self._arch_params (meaningful when in attrs)
    mutables,         \* the mutables found in the supernet
    unit_is_mutable,  \* unit.is_mutable of the channel unit
    is_supernet,      \* self.is_supernet of the mutator (when in attrs)
    assigned,         \* history: groups assigned by set_*choices so far
    lastOp,           \* the member of NasMutator that was used last
    err               \* the exception that use ended with, or "none"

\* ------------------------------------------------------- Autoformer state
VARIABLES
    fix_subnet,       \* constructor argument
    mutators,         \* constructor argument
    a_pc,             \* "init", "done" (constructed) or "failed"
    a_exc,            \* exception that ended the constructor, or "none"
    a_events,         \* calls made by the constructor, in order
    a_is_supernet,    \* self.is_supernet, <<>> while unset
    a_choice,         \* the subnet currently active in the architecture
    loss_calls        \* calls made by the last loss(), in order

mvars == <<attrs, custom_groups, search_groups_, arch_params_, mutables,
           unit_is_mutable, is_supernet, assigned, lastOp, err>>
avars == <<fix_subnet, mutators, a_pc, a_exc, a_events, a_is_supernet,
           a_choice, loss_calls>>
vars == <<mvars, avars>>

None == <<>>
Some(v) == <<v>>
IsNone(x) == Len(x) = 0
Val(x) == x[1]

\* ------------------------------------------------------------- the supernet
Mutables == 1..NumMutables
\* mutable 1 is a channel unit, the others are value mutables
Units == {1}
ValueMutables == Mutables \ Units
CandidateChoices == 1..MaxChoice

max_choice(m) == MaxChoice
min_choice(m) == 1
num_choices(m) == MaxChoice

\* The custom groups a user can pass: none, or one group of the first two or
\* more value mutables.
CustomGroupOptions ==
    {<<>>} \cup {<<[i \in 1..n |-> i + 1]>> : n \in 2..(NumMutables - 1)}

InCustom(m, custom) ==
    \E k \in 1..Len(custom) : \E i \in 1..Len(custom[k]) : custom[k][i] = m

\* dict helpers
Keys(d) == {d[i][1] : i \in 1..Len(d)}
Lookup(d, k) == (CHOOSE i \in 1..Len(d) : d[i][1] = k)
Get(d, k) == d[Lookup(d, k)][2]


\* ------------------------------------------------- NasMutator: properties

\* `if self._search_groups is None: raise RuntimeError(...)`
search_groups_raises(sg) == IsNone(sg)

\* search_groups without its test for None
search_groups_exc_unchecked(sg) == "none"

\* The exception a read of the property `search_groups` ends with.
search_groups_exc(sg) ==
    IF search_groups_raises(sg) THEN "RuntimeError" ELSE "none"

\* The exception a read of the property `arch_params` ends with.  Reading
\* self._arch_params while no such attribute was ever set is an
\* AttributeError, raised before the comparison with None is made.
arch_params_exc(at, ap) ==
    IF "_arch_params" \notin at THEN "AttributeError"
    ELSE IF IsNone(ap) THEN "RuntimeError"
    ELSE "none"

\* max_choices / min_choices / current_choices as functions on group names
max_choices(sg) ==
    [name \in Keys(sg) |-> max_choice(Get(sg, name)[1])]

min_choices(sg) ==
    [name \in Keys(sg) |-> min_choice(Get(sg, name)[1])]

current_choices(sg, ms) ==
    [name \in Keys(sg) |-> ms[Get(sg, name)[1]].current_choice]

\* ---------------------------------------------- NasMutator: search groups

\* `for id, unit in enumerate(ModuleList(mutable_units))`:
\* 'channel_<id>' -> [unit]
channel_groups(isMutable) ==
    IF isMutable THEN << <<<<"channel", 0>>, <<1>>>> >> ELSE <<>>

RECURSIVE separate_groups(_, _)
separate_groups(m, custom) ==
    IF m > NumMutables THEN <<>>
    ELSE (IF m \in Units \/ InCustom(m, custom) THEN <<>>
          ELSE << <<<<"value", m>>, <<m>>>> >>)
         \o separate_groups(m + 1, custom)

\* GroupMixin.build_search_groups: one group per custom group, every other
\* value mutable grouped separately.
build_search_groups(custom) ==
    [k \in 1..Len(custom) |-> << <<"group", k - 1>>, custom[k] >>]
    \o separate_groups(1, custom)

\* ------------------------------------------------ NasMutator: assignments

\* an assignment that reaches only mutables[0]
set_group_first_only(members, choice, ms) ==
    [m \in Mutables |->
        IF members[1] = m
        THEN [ms[m] EXCEPT !.current_choice = choice]
        ELSE ms[m]]

\* `for mutable in mutables: mutable.current_choice = choice`
set_group(members, choice, ms) ==
    [m \in Mutables |->
        IF \E i \in 1..Len(members) : members[i] = m
        THEN [ms[m] EXCEPT !.current_choice = choice]
        ELSE ms[m]]

\* The choice set_choices gives a group: <<>> when the group is skipped.
choice_for(name, first, choices, ms) ==
    IF name \notin DOMAIN choices
    THEN IF ms[first].alias \notin DOMAIN choices
         THEN None
         ELSE Some(choices[ms[first].alias])
    ELSE Some(choices[name])

RECURSIVE set_choices_from(_, _, _, _)
set_choices_from(i, sg, choices, ms) ==
    IF i > Len(sg) THEN ms
    ELSE LET c == choice_for(sg[i][1], sg[i][2][1], choices, ms)
         IN IF IsNone(c)
            THEN set_choices_from(i + 1, sg, choices, ms)
            ELSE set_choices_from(i + 1, sg, choices,
                                  set_group(sg[i][2], Val(c), ms))

set_choices(sg, choices, ms) == set_choices_from(1, sg, choices, ms)

RECURSIVE set_each_from(_, _, _, _)
set_each_from(i, sg, chosen, ms) ==
    IF i > Len(sg) THEN ms
    ELSE set_each_from(i + 1, sg, chosen,
                       set_group(sg[i][2], chosen[sg[i][1]], ms))

set_max_choices(sg, ms) == set_each_from(1, sg, max_choices(sg), ms)

set_min_choices(sg, ms) == set_each_from(1, sg, min_choices(sg), ms)

\* the groups a set_choices(choices) call assigns
groups_assigned(sg, choices, ms) ==
    {sg[i][1] : i \in {j \in 1..Len(sg) :
        ~IsNone(choice_for(sg[j][1], sg[j][2][1], choices, ms))}}

\* --------------------------------------------------- NasMutator: sampling

\* The exception sample_choices ends with.  hasattr(self, 'arch_params')
\* is False exactly when the property read raises AttributeError; any other
\* exception of the read leaves hasattr and so sample_choices; a name that
\* is missing from the parameter dict is a failed lookup.
sample_choices_exc(sgo, at, ap) ==
    IF search_groups_raises(sgo) THEN "RuntimeError"
    ELSE IF Len(Val(sgo)) = 0 THEN "none"
    ELSE IF arch_params_exc(at, ap) = "AttributeError" THEN "none"
    ELSE IF arch_params_exc(at, ap) # "none" THEN arch_params_exc(at, ap)
    ELSE IF \E name \in Keys(Val(sgo)) : name \notin Keys(Val(ap))
         THEN "KeyError"
    ELSE "none"

\* what mutables[0].sample_choice(...) / max_choice / min_choice can give
sampled(m, kind, hasArch) ==
    IF hasArch THEN CandidateChoices
    ELSE IF kind = "max" THEN {max_choice(m)}
    ELSE IF kind = "min" THEN {min_choice(m)}
    ELSE CandidateChoices

\* the dicts sample_choices(kind) can return when it does not raise
sample_choices(sg, at, ap, kind) ==
    {c \in [Keys(sg) -> CandidateChoices] :
        \A name \in Keys(sg) :
            c[name] \in sampled(Get(sg, name)[1], kind,
                                arch_params_exc(at, ap) = "none")}


\* ---------------------------------------------------- NasMutator: actions

\* The alias of the mutables that have one.
AliasKey == <<"alias", 1>>

\* The keys that matter in the dict given to set_choices: the names of the
\* search groups and the alias.
ChoiceKeys(sgo) ==
    {AliasKey} \cup (IF IsNone(sgo) THEN {} ELSE Keys(Val(sgo)))

ChoiceDicts(sgo) ==
    UNION {[D -> CandidateChoices] :
             D \in {K \in SUBSET ChoiceKeys(sgo) :
                      Cardinality(K) <= MaxDictKeys}}

Returned(op) == lastOp' = op /\ err' = "none"

Raised(op, e) == lastOp' = op /\ err' = e

\* NasMutator.__init__ has run: the state every behaviour starts in.
MutatorInit ==
    /\ attrs = {"_custom_groups", "_search_groups"}
    /\ custom_groups \in CustomGroupOptions
    /\ search_groups_ = None
    /\ arch_params_ = None
    /\ unit_is_mutable \in BOOLEAN
    /\ mutables \in
         {ms \in [Mutables ->
                    [current_choice : CandidateChoices,
                     is_fixed : {FALSE},
                     alias : {None, AliasKey},
                     forward_arg : {None}]] :
            \A m \in Mutables :
                /\ IsNone(ms[m].alias) <=> m # 2
                /\ ms[m].current_choice \in {min_choice(m), max_choice(m)}
                /\ m \in Units => ms[m].current_choice = min_choice(m)}
    /\ is_supernet = None
    /\ assigned = {}
    /\ lastOp = "__init__"
    /\ err = "none"

prepare_from_supernet ==
    /\ search_groups_' =
         Some(channel_groups(unit_is_mutable)
              \o build_search_groups(custom_groups))
    /\ mutables' =
         [m \in Mutables |->
            IF m \in Units
            THEN [mutables[m] EXCEPT !.current_choice = max_choice(m)]
            ELSE mutables[m]]
    /\ attrs' = attrs \cup {"units", "_name2unit"}
    /\ Returned("prepare_from_supernet")
    /\ UNCHANGED <<custom_groups, arch_params_, unit_is_mutable,
                   is_supernet, assigned>>
    /\ UNCHANGED avars

\* `self._arch_params[name] = nn.Parameter(randn(mutables[0].num_choices))`
build_arch_params(sg) ==
    [i \in 1..Len(sg) |-> <<sg[i][1], num_choices(sg[i][2][1])>>]

RECURSIVE modify_from(_, _, _)
modify_from(i, sg, ms) ==
    IF i > Len(sg) THEN ms
    ELSE modify_from(i + 1, sg,
            [m \in Mutables |->
                IF \E k \in 1..Len(sg[i][2]) : sg[i][2][k] = m
                THEN [ms[m] EXCEPT !.forward_arg = Some(sg[i][1])]
                ELSE ms[m]])

\* _modify_supernet_forward
modify_supernet_forward(sg, ms) == modify_from(1, sg, ms)

prepare_arch_params ==
    /\ attrs' = attrs \cup {"_arch_params"}
    /\ IF search_groups_raises(search_groups_)
       THEN /\ arch_params_' = Some(<<>>)
            /\ mutables' = mutables
            /\ Raised("prepare_arch_params", "RuntimeError")
       ELSE /\ arch_params_' = Some(build_arch_params(Val(search_groups_)))
            /\ mutables' =
                 modify_supernet_forward(Val(search_groups_), mutables)
            /\ Returned("prepare_arch_params")
    /\ UNCHANGED <<custom_groups, search_groups_, unit_is_mutable,
                   is_supernet, assigned>>
    /\ UNCHANGED avars

mstate == <<attrs, custom_groups, search_groups_, arch_params_, mutables,
            unit_is_mutable, is_supernet>>

\* a read of a property that only reads self.search_groups
ReadGroups(op) ==
    /\ lastOp' = op
    /\ err' = search_groups_exc(search_groups_)
    /\ UNCHANGED <<mstate, assigned>>
    /\ UNCHANGED avars

read_search_groups == ReadGroups("search_groups")

read_max_choices == ReadGroups("max_choices")

read_min_choices == ReadGroups("min_choices")

read_current_choices == ReadGroups("current_choices")

read_arch_params ==
    /\ lastOp' = "arch_params"
    /\ err' = arch_params_exc(attrs, arch_params_)
    /\ UNCHANGED <<mstate, assigned>>
    /\ UNCHANGED avars

call_sample_choices ==
    /\ lastOp' = "sample_choices"
    /\ err' = sample_choices_exc(search_groups_, attrs, arch_params_)
    /\ UNCHANGED <<mstate, assigned>>
    /\ UNCHANGED avars

call_set_choices ==
    \E choices \in ChoiceDicts(search_groups_) :
        /\ IF search_groups_raises(search_groups_)
           THEN /\ Raised("set_choices", "RuntimeError")
                /\ UNCHANGED <<mutables, assigned>>
           ELSE /\ mutables' =
                     set_choices(Val(search_groups_), choices, mutables)
                /\ assigned' = assigned \cup
                     groups_assigned(Val(search_groups_), choices, mutables)
                /\ Returned("set_choices")
        /\ UNCHANGED <<attrs, custom_groups, search_groups_, arch_params_,
                       unit_is_mutable, is_supernet>>
        /\ UNCHANGED avars

call_set_max_choices ==
    /\ IF search_groups_raises(search_groups_)
       THEN /\ Raised("set_max_choices", "RuntimeError")
            /\ UNCHANGED <<mutables, assigned>>
       ELSE /\ mutables' = set_max_choices(Val(search_groups_), mutables)
            /\ assigned' = assigned \cup Keys(Val(search_groups_))
            /\ Returned("set_max_choices")
    /\ UNCHANGED <<attrs, custom_groups, search_groups_, arch_params_,
                   unit_is_mutable, is_supernet>>
    /\ UNCHANGED avars

call_set_min_choices ==
    /\ IF search_groups_raises(search_groups_)
       THEN /\ Raised("set_min_choices", "RuntimeError")
            /\ UNCHANGED <<mutables, assigned>>
       ELSE /\ mutables' = set_min_choices(Val(search_groups_), mutables)
            /\ assigned' = assigned \cup Keys(Val(search_groups_))
            /\ Returned("set_min_choices")
    /\ UNCHANGED <<attrs, custom_groups, search_groups_, arch_params_,
                   unit_is_mutable, is_supernet>>
    /\ UNCHANGED avars

\* `for module in self.architecture.modules(): if isinstance(module,
\* BaseMutable): if not module.is_fixed: module.fix_chosen(current_choice)`
fix_modules(ms) ==
    [m \in Mutables |->
        IF m \in ValueMutables /\ ~ms[m].is_fixed
        THEN [ms[m] EXCEPT !.is_fixed = TRUE]
        ELSE ms[m]]

fix_choices ==
    /\ lastOp' = "fix_choices"
    /\ IF sample_choices_exc(search_groups_, attrs, arch_params_) # "none"
       THEN /\ err' =
                 sample_choices_exc(search_groups_, attrs, arch_params_)
            /\ UNCHANGED <<attrs, mutables, is_supernet, assigned>>
       ELSE \E choices \in sample_choices(Val(search_groups_), attrs,
                                          arch_params_, "random") :
            /\ assigned' = assigned \cup
                 groups_assigned(Val(search_groups_), choices, mutables)
            /\ IF "architecture" \notin attrs
               THEN /\ mutables' =
                         set_choices(Val(search_groups_), choices, mutables)
                    /\ err' = "AttributeError"
                    /\ UNCHANGED <<attrs, is_supernet>>
               ELSE /\ mutables' = fix_modules(
                         set_choices(Val(search_groups_), choices, mutables))
                    /\ attrs' = attrs \cup {"is_supernet"}
                    /\ is_supernet' = Some(FALSE)
                    /\ err' = "none"
    /\ UNCHANGED <<custom_groups, search_groups_, arch_params_,
                   unit_is_mutable>>
    /\ UNCHANGED avars

Next ==
    \/ prepare_from_supernet
    \/ prepare_arch_params
    \/ read_search_groups
    \/ read_arch_params
    \/ read_max_choices
    \/ read_min_choices
    \/ read_current_choices
    \/ call_sample_choices
    \/ call_set_choices
    \/ call_set_max_choices
    \/ call_set_min_choices
    \/ fix_choices


\* ------------------------------------------------------------- Autoformer

\* What a mutator config says about parse_cfg:
\*   "absent"      no 'parse_cfg' key
\*   "not_dict"    'parse_cfg' is not a dict
\*   "predefined"  parse_cfg['type'] == 'Predefined'
\*   "other_type"  parse_cfg['type'] is something else
\*   "no_type"     parse_cfg is a dict without 'type'
MutatorCfgs == {"absent", "not_dict", "predefined", "other_type", "no_type"}

CfgSeqs == UNION {[1..n -> MutatorCfgs] : n \in 0..MaxMutators}

\* The mutators argument: None, a dict of configs, or some other object.
MutatorsArgs ==
    {[kind |-> "None", cfgs |-> <<>>], [kind |-> "list", cfgs |-> <<>>]}
    \cup {[kind |-> "dict", cfgs |-> c] : c \in CfgSeqs}

\* The fix_subnet argument: None, an empty dict, or a subnet.
FixSubnetArgs == {"None", "empty", "subnet"}

\* `if fix_subnet:`
truthy(fs) == fs = "subnet"

\* the exception the checks on one mutator config end with
parse_cfg_exc(cfg) ==
    IF cfg = "no_type" THEN "KeyError"
    ELSE IF cfg = "other_type" THEN "AssertionError"
    ELSE "none"

\* a loop body that builds the mutator and forgets to prepare it
build_one_unprepared(i) == << <<"build", i>> >>

\* what the loop does for one config that passed the checks
build_one(i) == << <<"build", i>>, <<"prepare_from_supernet", i>> >>

RECURSIVE build_mutators(_, _, _)
build_mutators(i, cfgs, events) ==
    IF i > Len(cfgs) THEN [events |-> events, exc |-> "none"]
    ELSE IF parse_cfg_exc(cfgs[i]) # "none"
         THEN [events |-> events, exc |-> parse_cfg_exc(cfgs[i])]
    ELSE build_mutators(i + 1, cfgs, events \o build_one(i))

\* The else branch of the isinstance test formats `type(mutator)`, a local
\* of __init__ that is assigned only inside the loop of the other branch.
not_dict_exc == "UnboundLocalError"

\* Autoformer.__init__ as a function of its arguments
construct(fs, muts) ==
    IF truthy(fs)
    THEN [events |-> << <<"load_fix_subnet", 0>> >>, exc |-> "none",
          is_supernet |-> Some(FALSE)]
    ELSE IF muts.kind = "None"
    THEN [events |-> <<>>, exc |-> "AssertionError", is_supernet |-> None]
    ELSE IF muts.kind = "dict"
    THEN LET r == build_mutators(1, muts.cfgs, <<>>)
         IN IF r.exc # "none"
            THEN [events |-> r.events, exc |-> r.exc, is_supernet |-> None]
            ELSE [events |-> r.events \o << <<"_build_search_space", 0>> >>,
                  exc |-> "none", is_supernet |-> Some(TRUE)]
    ELSE [events |-> <<>>, exc |-> not_dict_exc, is_supernet |-> None]

\* SpaceMixin.sample_subnet: some subnet of the search space
sample_subnet == CandidateChoices

\* a loss() that runs the forward pass before it activates the subnet
loss_trace_forward_first(supernet) ==
    IF supernet THEN <<"architecture", "sample_subnet", "set_subnet">>
    ELSE <<"architecture">>

\* the calls loss() makes, in order
loss_trace(supernet) ==
    IF supernet THEN <<"sample_subnet", "set_subnet", "architecture">>
    ELSE <<"architecture">>

\* The arguments of a constructor call that has not run yet.
AutoformerInit ==
    /\ fix_subnet \in FixSubnetArgs
    /\ mutators \in MutatorsArgs
    /\ a_pc = "init"
    /\ a_exc = "none"
    /\ a_events = <<>>
    /\ a_is_supernet = None
    /\ a_choice \in CandidateChoices
    /\ loss_calls = <<>>

Autoformer_init ==
    /\ a_pc = "init"
    /\ a_events' = construct(fix_subnet, mutators).events
    /\ a_exc' = construct(fix_subnet, mutators).exc
    /\ a_is_supernet' = construct(fix_subnet, mutators).is_supernet
    /\ a_pc' = IF a_exc' = "none" THEN "done" ELSE "failed"
    /\ IF truthy(fix_subnet)
       THEN a_choice' \in CandidateChoices
       ELSE a_choice' = a_choice
    /\ UNCHANGED <<fix_subnet, mutators, loss_calls>>
    /\ UNCHANGED mvars

loss ==
    /\ a_pc = "done"
    /\ loss_calls' = loss_trace(Val(a_is_supernet))
    /\ IF Val(a_is_supernet)
       THEN a_choice' \in sample_subnet
       ELSE a_choice' = a_choice
    /\ UNCHANGED <<fix_subnet, mutators, a_pc, a_exc, a_events,
                   a_is_supernet>>
    /\ UNCHANGED mvars

AutoNext ==
    \/ Autoformer_init
    \/ loss

\* --------------------------------------------------------- specifications

\* one mutator on one supernet; no Autoformer is being constructed
AutoformerIdle ==
    /\ fix_subnet = "None"
    /\ mutators = [kind |-> "None", cfgs |-> <<>>]
    /\ a_pc = "init"
    /\ a_exc = "none"
    /\ a_events = <<>>
    /\ a_is_supernet = None
    /\ a_choice = 1
    /\ loss_calls = <<>>

\* one Autoformer; no mutator is being driven directly
MutatorIdle ==
    /\ attrs = {"_custom_groups", "_search_groups"}
    /\ custom_groups = <<>>
    /\ search_groups_ = None
    /\ arch_params_ = None
    /\ unit_is_mutable = TRUE
    /\ mutables = [m \in Mutables |->
                     [current_choice |-> 1, is_fixed |-> FALSE,
                      alias |-> IF m = 2 THEN AliasKey ELSE None,
                      forward_arg |-> None]]
    /\ is_supernet = None
    /\ assigned = {}
    /\ lastOp = "__init__"
    /\ err = "none"

Init == MutatorInit /\ AutoformerIdle

Spec == Init /\ [][Next]_vars

AutoInit == AutoformerInit /\ MutatorIdle

AutoSpec == AutoInit /\ [][AutoNext]_vars


\* ------------------------------------------------------------ properties

Prepared == ~IsNone(search_groups_)

\* C1: every loss() of a supernet (is_supernet True) calls sample_subnet,
\* then set_subnet, then the architecture's forward pass, in that order;
\* every loss() of a fixed subnet (is_supernet False) calls neither
\* sample_subnet nor set_subnet and leaves the active choice as it was.
LossSamplesBeforeForward ==
    [][a_pc = "done" =>
        IF Val(a_is_supernet)
        THEN \E i, j, k \in 1..Len(loss_calls') :
                /\ i < j /\ j < k
                /\ loss_calls'[i] = "sample_subnet"
                /\ loss_calls'[j] = "set_subnet"
                /\ loss_calls'[k] = "architecture"
        ELSE /\ \A i \in 1..Len(loss_calls') :
                   loss_calls'[i] \notin {"sample_subnet", "set_subnet"}
             /\ a_choice' = a_choice]_vars

\* a supernet has run loss()
LossWitness ==
    /\ a_pc = "done"
    /\ a_is_supernet = Some(TRUE)
    /\ Len(loss_calls) = 3

\* C2: every search group that set_choices, set_max_choices or
\* set_min_choices has assigned at least once has all its members at the
\* current_choice that current_choices reports for the group.
AssignedGroupsAgree ==
    Prepared =>
        \A name \in assigned :
            \A i \in 1..Len(Get(Val(search_groups_), name)) :
                mutables[Get(Val(search_groups_), name)[i]].current_choice
                = current_choices(Val(search_groups_), mutables)[name]

\* set_choices has just assigned a group of several mutables
AssignedGroupWitness ==
    /\ Prepared
    /\ lastOp = "set_choices"
    /\ err = "none"
    /\ \E name \in assigned : Len(Get(Val(search_groups_), name)) >= 2

\* C3: fix_choices on a prepared mutator returns without an exception,
\* with every mutable fixed and is_supernet False.
FixChoicesFixesEveryMutable ==
    (lastOp = "fix_choices" /\ Prepared) =>
        /\ err = "none"
        /\ \A m \in ValueMutables : mutables[m].is_fixed
        /\ is_supernet = Some(FALSE)

GroupOps ==
    {"search_groups", "sample_choices", "set_choices", "set_max_choices",
     "set_min_choices", "max_choices", "min_choices", "current_choices",
     "prepare_arch_params"}

\* C4 as stated: before prepare_from_supernet every use of search_groups,
\* directly or through sample_choices, set_choices, set_max_choices,
\* set_min_choices, max_choices, min_choices, current_choices or
\* prepare_arch_params, raises RuntimeError and changes no state; after
\* prepare_from_supernet a read of search_groups returns.
UnpreparedCallsChangeNothing ==
    [][/\ (~Prepared /\ lastOp' \in GroupOps) =>
             (err' = "RuntimeError" /\ mstate' = mstate)
       /\ (Prepared /\ lastOp' = "search_groups") => err' = "none"
       /\ Prepared => Prepared']_vars

\* C4 as amended: the same, except that prepare_arch_params, which also
\* raises RuntimeError, has by then replaced _arch_params by an empty
\* parameter dict; everything else it leaves unchanged.
UnpreparedCallsRaise ==
    [][/\ (~Prepared /\ lastOp' \in GroupOps) =>
             /\ err' = "RuntimeError"
             /\ IF lastOp' = "prepare_arch_params"
                THEN /\ arch_params_' = Some(<<>>)
                     /\ attrs' = attrs \cup {"_arch_params"}
                     /\ UNCHANGED <<custom_groups, search_groups_, mutables,
                                    unit_is_mutable, is_supernet>>
                ELSE mstate' = mstate
       /\ (Prepared /\ lastOp' = "search_groups") => err' = "none"
       /\ Prepared => Prepared']_vars

\* prepare_arch_params was called on a mutator that was never prepared
UnpreparedArchParamsWitness ==
    /\ ~Prepared
    /\ lastOp = "prepare_arch_params"
    /\ err = "RuntimeError"
    /\ arch_params_ = Some(<<>>)

\* C5: a read of arch_params before any prepare_arch_params call raises
\* RuntimeError; a read after one returns a dict whose keys are exactly
\* the search-group names.
ArchParamsRaisesRuntimeError ==
    /\ (lastOp = "arch_params" /\ "_arch_params" \notin attrs) =>
          err = "RuntimeError"
    /\ (lastOp = "arch_params" /\ "_arch_params" \in attrs /\ Prepared) =>
          /\ err = "none"
          /\ Keys(Val(arch_params_)) = Keys(Val(search_groups_))

NonDictMutatorsRaiseTypeError ==
    (a_pc = "failed" /\ ~truthy(fix_subnet) /\ mutators.kind = "list") =>
        /\ a_exc = "TypeError"
        /\ a_events = <<>>
        /\ a_is_supernet = None

====
